---- MODULE Spec2Model ----
(***************************************************************************)
(* mkp: a multi-dimensional bounded knapsack solver (src/main.rs).         *)
(*                                                                         *)
(* The model follows the program: UncheckedProblem::check validates the    *)
(* parsed input and builds the Problem (the value table dp), then          *)
(* Problem::solve runs multi_pack on every thing (one zero_one_pack pass   *)
(* per bundle of the binary splitting) and backtracks through the          *)
(* retained quantity tables.  Item values are modelled as naturals (the    *)
(* exactly representable case of f64).  Vectors are 1-based sequences,     *)
(* tables are functions over 0..end as in the source.                      *)
(***************************************************************************)
EXTENDS Integers, Sequences, FiniteSets, TLC

\* ---------------------------------------------------------------- bounds
\* Specification Spec: validated shapes, wide numerics.
MaxDim == 2
MaxSize == 4
MaxThings == 2
MaxValue == 2
MaxNum == 3
MaxCost == 2
\* Specification SpecUnchecked: every shape check can meet, narrow numerics.
MaxDimU == 2
MaxBoundU == 1
MaxThingsU == 2
MaxNumU == 2
MaxCostU == 1
\* Specification SpecPack: one thing, one dimension, deep counts.
MaxBoundP == 4
MaxNumP == 9
MaxCostP == 2
\* Specification SpecIdx: the index arithmetic of Costs alone.
MaxDimI == 3
MaxBoundI == 2
MaxCostI == 3

Names == {"a", "b"}

VARIABLES
    things,    \* UncheckedProblem.things / Problem.things
    costs,     \* UncheckedProblem.costs / Problem.costs.0, the bound vector
    pc,        \* position in main: check, solve's loops, done
    err,       \* the message check bailed with ("" when none)
    dp,        \* Problem.dp, <<>> while no Problem exists
    taked,     \* solve's taked: one quantity table per processed thing
    cur,       \* multi_pack's local taked
    i,         \* 1-based position of solve's loops in things
    k,         \* multi_pack's k
    num,       \* multi_pack's num (what remains of the count)
    passes,    \* labels of the zero_one_pack calls of the latest multi_pack
    v,         \* solve's backtracking index
    chosen,    \* solve's chosen Vec (pushed in reverse thing order)
    solution,  \* the returned Solution, <<>> before
    call       \* SpecIdx: the latest call of a Costs method and its result

vars == <<things, costs, pc, err, dp, taked, cur, i, k, num, passes, v,
          chosen, solution, call>>

\* ------------------------------------------------------------ vectors
Reverse(s) == [x \in 1..Len(s) |-> s[Len(s) + 1 - x]]

Scale(cost, n) == [d \in 1..Len(cost) |-> cost[d] * n]

RECURSIVE SumSeq(_)
SumSeq(s) == IF s = <<>> THEN 0 ELSE s[1] + SumSeq(Tail(s))

RECURSIVE ProdSize(_)
ProdSize(B) == IF B = <<>> THEN 1 ELSE (B[1] + 1) * ProdSize(Tail(B))

\* ------------------------------------------------------------ Costs
None == [some |-> FALSE]
Some(x) == [some |-> TRUE, val |-> x]

RECURSIVE to_idx_loop(_, _, _, _)
to_idx_loop(B, vec, idx, ans) ==
    IF idx > Len(B) - 1 THEN ans
    ELSE to_idx_loop(B, vec, idx + 1, (ans + vec[idx]) * (B[idx + 1] + 1))

RECURSIVE to_idx_radix_loop(_, _, _, _)
to_idx_radix_loop(B, vec, idx, ans) ==
    IF idx > Len(B) - 1 THEN ans
    ELSE to_idx_radix_loop(B, vec, idx + 1, (ans + vec[idx]) * B[idx + 1])

\* mutant of to_idx: the radix is the bound, not bound + 1
to_idx_radix(B, vec) == to_idx_radix_loop(B, vec, 1, 0) + vec[Len(vec)]

to_idx(B, vec) == to_idx_loop(B, vec, 1, 0) + vec[Len(vec)]

end(B) == to_idx(B, B)

iter(B) == 0..end(B)

RECURSIVE to_cost_loop(_, _, _, _)
to_cost_loop(B, c, j, acc) ==
    IF j = 0 THEN acc
    ELSE to_cost_loop(B, c \div (B[j] + 1), j - 1, Append(acc, c % (B[j] + 1)))

to_cost(B, c) == Reverse(to_cost_loop(B, c, Len(B), <<>>))

RECURSIVE validate_sub_loop(_, _, _, _, _)
validate_sub_loop(B, bound, cost, idx, ans) ==
    IF idx > Len(bound) THEN Some(ans)
    ELSE IF cost[idx] > bound[idx] THEN None
    ELSE LET c == IF idx + 1 <= Len(B) THEN B[idx + 1] ELSE 0
         IN  validate_sub_loop(B, bound, cost, idx + 1,
                               (ans + (bound[idx] - cost[idx])) * (c + 1))

RECURSIVE validate_sub_ge_loop(_, _, _, _, _)
validate_sub_ge_loop(B, bound, cost, idx, ans) ==
    IF idx > Len(bound) THEN Some(ans)
    ELSE IF cost[idx] >= bound[idx] THEN None
    ELSE LET c == IF idx + 1 <= Len(B) THEN B[idx + 1] ELSE 0
         IN  validate_sub_ge_loop(B, bound, cost, idx + 1,
                                  (ans + (bound[idx] - cost[idx])) * (c + 1))

RECURSIVE validate_sub_shift_loop(_, _, _, _, _)
validate_sub_shift_loop(B, bound, cost, idx, ans) ==
    IF idx > Len(bound) THEN Some(ans)
    ELSE IF cost[idx] > bound[idx] THEN None
    ELSE LET c == IF idx + 1 <= Len(B) THEN B[idx] ELSE 0
         IN  validate_sub_shift_loop(B, bound, cost, idx + 1,
                                     (ans + (bound[idx] - cost[idx])) * (c + 1))

\* mutant of validate_sub: the radix is taken from this dimension's bound, not
\* the next one's
validate_sub_shift(B, bound, cost) == validate_sub_shift_loop(B, bound, cost, 1, 0)

\* mutant of validate_sub: a cost equal to the budget is refused
validate_sub_ge(B, bound, cost) == validate_sub_ge_loop(B, bound, cost, 1, 0)

validate_sub(B, bound, cost) == validate_sub_loop(B, bound, cost, 1, 0)

\* ------------------------------------------------------------ Problem
\* Problem::new: the value table, all zero
new(B) == [c \in 0..end(B) |-> 0]

\* mutant of zero_one_step: the label replaces the predecessor's quantity
zero_one_step_label(B, st, cost, value, kk, c) ==
    LET r == validate_sub(B, to_cost(B, c), cost)
    IN  IF r.some /\ st.dp[r.val] + value > st.dp[c]
        THEN [dp    |-> [st.dp EXCEPT ![c] = st.dp[r.val] + value],
              taked |-> [st.taked EXCEPT ![c] = kk]]
        ELSE st

\* mutant of zero_one_step: a tie also rewrites the entry
zero_one_step_ge(B, st, cost, value, kk, c) ==
    LET r == validate_sub(B, to_cost(B, c), cost)
    IN  IF r.some /\ st.dp[r.val] + value >= st.dp[c]
        THEN [dp    |-> [st.dp EXCEPT ![c] = st.dp[r.val] + value],
              taked |-> [st.taked EXCEPT ![c] = st.taked[r.val] + kk]]
        ELSE st

\* one iteration of zero_one_pack's loop, at index c, on st = [dp, taked]
zero_one_step(B, st, cost, value, kk, c) ==
    LET r == validate_sub(B, to_cost(B, c), cost)
    IN  IF r.some /\ st.dp[r.val] + value > st.dp[c]
        THEN [dp    |-> [st.dp EXCEPT ![c] = st.dp[r.val] + value],
              taked |-> [st.taked EXCEPT ![c] = st.taked[r.val] + kk]]
        ELSE st

\* the loop over the indices c, c - 1, ..., 0 (s binds the tables' value, so
\* that each iteration's tables are computed once)
RECURSIVE zero_one_down(_, _, _, _, _, _)
zero_one_down(B, st, cost, value, kk, c) ==
    IF c < 0 THEN st
    ELSE CHOOSE out \in
             {zero_one_down(B, zero_one_step(B, s, cost, value, kk, c),
                            cost, value, kk, c - 1) : s \in {st}} : TRUE

RECURSIVE zero_one_up(_, _, _, _, _, _)
zero_one_up(B, st, cost, value, kk, c) ==
    IF c > end(B) THEN st
    ELSE CHOOSE out \in
             {zero_one_up(B, zero_one_step(B, s, cost, value, kk, c),
                          cost, value, kk, c + 1) : s \in {st}} : TRUE

\* mutant of zero_one_pack: the indices are visited in ascending order
zero_one_pack_asc(B, st, cost, value, kk) ==
    zero_one_up(B, st, cost, value, kk, 0)

zero_one_pack(B, st, cost, value, kk) ==
    zero_one_down(B, st, cost, value, kk, end(B))

\* the greatest element of a non-empty set of numbers
Last(S) == CHOOSE x \in S : \A y \in S : y <= x

\* mutant of collect: the first insert of a name wins
collect_first(th, ch) ==
    LET r == Reverse(ch)
    IN  [nm \in {th[j].name : j \in 1..Len(th)} |->
            r[CHOOSE x \in {j \in 1..Len(th) : th[j].name = nm} :
                \A y \in {j \in 1..Len(th) : th[j].name = nm} : x <= y]]

\* lines 183-188: chosen.reverse(), then collect (name, num) into a BTreeMap,
\* where a later insert of the same name replaces the earlier one
collect(th, ch) ==
    LET r == Reverse(ch)
    IN  [nm \in {th[j].name : j \in 1..Len(th)} |->
            r[Last({j \in 1..Len(th) : th[j].name = nm})]]

\* ------------------------------------------------------------ inputs
Vectors(n, m) == [1..n -> 0..m]

Bounds(dims, maxSize) ==
    {B \in UNION {Vectors(n, maxSize - 1) : n \in dims} : ProdSize(B) <= maxSize}

Thing(names, maxValue, maxNum, lens, maxCost) ==
    [name : names, value : 0..maxValue, num : 0..maxNum,
     costs : UNION {Vectors(n, maxCost) : n \in lens}]

Lists(S, n) == UNION {[1..m -> S] : m \in 0..n}

Start(th, B) ==
    /\ things = th
    /\ costs = B
    /\ pc = "unchecked"
    /\ err = ""
    /\ dp = <<>>
    /\ taked = <<>>
    /\ cur = <<>>
    /\ i = 1
    /\ k = 0
    /\ num = 0
    /\ passes = <<>>
    /\ v = 0
    /\ chosen = <<>>
    /\ solution = <<>>
    /\ call = [op |-> "none"]

Init ==
    \E B \in Bounds(1..MaxDim, MaxSize) :
        \E th \in Lists(Thing(Names, MaxValue, MaxNum, {Len(B)}, MaxCost), MaxThings) :
            Start(th, B)

\* ------------------------------------------------------------ main
\* mutant of Check: any thing of the right length is enough
CheckAny ==
    /\ pc = "unchecked"
    /\ IF Len(costs) = 0
       THEN /\ pc' = "error"
            /\ err' = "must contain at least one cost"
            /\ dp' = dp
       ELSE IF \E j \in 1..Len(things) : Len(things[j].costs) = Len(costs)
       THEN /\ pc' = "solve"
            /\ err' = err
            /\ dp' = new(costs)
       ELSE /\ pc' = "error"
            /\ err' = "costs does not match"
            /\ dp' = dp
    /\ UNCHANGED <<things, costs, taked, cur, i, k, num, passes, v, chosen,
                   solution, call>>

\* UncheckedProblem::check, with Problem::new on success
Check ==
    /\ pc = "unchecked"
    /\ IF Len(costs) = 0
       THEN /\ pc' = "error"
            /\ err' = "must contain at least one cost"
            /\ dp' = dp
       ELSE IF \A j \in 1..Len(things) : Len(things[j].costs) = Len(costs)
       THEN /\ pc' = "solve"
            /\ err' = err
            /\ dp' = new(costs)
       ELSE /\ pc' = "error"
            /\ err' = "costs does not match"
            /\ dp' = dp
    /\ UNCHANGED <<things, costs, taked, cur, i, k, num, passes, v, chosen,
                   solution, call>>

\* solve's first loop enters multi_pack for things[i]
MultiPackBegin ==
    /\ pc = "solve"
    /\ i <= Len(things)
    /\ k' = 1
    /\ num' = things[i].num
    /\ cur' = [c \in 0..end(costs) |-> 0]
    /\ passes' = <<>>
    /\ pc' = "multi_pack"
    /\ UNCHANGED <<things, costs, err, dp, taked, i, v, chosen, solution, call>>

\* mutant of PackLoop: num is not reduced by the bundle
PackLoopKeepNum ==
    /\ pc = "multi_pack"
    /\ k < num
    /\ \E st \in {zero_one_pack(costs, [dp |-> dp, taked |-> cur],
                                 Scale(things[i].costs, k), k * things[i].value, k)} :
           /\ dp' = st.dp
           /\ cur' = st.taked
    /\ passes' = Append(passes, k)
    /\ num' = num
    /\ k' = k * 2
    /\ UNCHANGED <<things, costs, pc, err, taked, i, v, chosen, solution, call>>

\* one iteration of multi_pack's while loop
PackLoop ==
    /\ pc = "multi_pack"
    /\ k < num
    /\ \E st \in {zero_one_pack(costs, [dp |-> dp, taked |-> cur],
                                 Scale(things[i].costs, k), k * things[i].value, k)} :
           /\ dp' = st.dp
           /\ cur' = st.taked
    /\ passes' = Append(passes, k)
    /\ num' = num - k
    /\ k' = k * 2
    /\ UNCHANGED <<things, costs, pc, err, taked, i, v, chosen, solution, call>>

\* the loop has ended: the pass of the remainder, then multi_pack returns and
\* solve pushes the table
PackRest ==
    /\ pc = "multi_pack"
    /\ ~(k < num)
    /\ \E st \in {IF num > 0
                   THEN zero_one_pack(costs, [dp |-> dp, taked |-> cur],
                                      Scale(things[i].costs, num),
                                      num * things[i].value, num)
                   ELSE [dp |-> dp, taked |-> cur]} :
           /\ dp' = st.dp
           /\ cur' = st.taked
           /\ taked' = Append(taked, st.taked)
    /\ passes' = IF num > 0 THEN Append(passes, num) ELSE passes
    /\ i' = i + 1
    /\ pc' = "solve"
    /\ UNCHANGED <<things, costs, err, k, num, v, chosen, solution, call>>

\* line 171: the backtracking starts at the full budget
BacktrackBegin ==
    /\ pc = "solve"
    /\ i > Len(things)
    /\ v' = end(costs)
    /\ i' = Len(things)
    /\ pc' = "backtrack"
    /\ UNCHANGED <<things, costs, err, dp, taked, cur, k, num, passes, chosen,
                   solution, call>>

\* mutant of BacktrackStep: the index is not moved to the predecessor state
BacktrackStepStale ==
    /\ pc = "backtrack"
    /\ i >= 1
    /\ chosen' = Append(chosen, taked[i][v])
    /\ i' = i - 1
    /\ UNCHANGED <<things, costs, pc, err, dp, taked, cur, k, num, passes, v,
                   solution, call>>

\* one iteration of the backtracking loop; the usize subtraction panics on
\* underflow
BacktrackStep ==
    /\ pc = "backtrack"
    /\ i >= 1
    /\ LET n == taked[i][v]
           sub == to_idx(costs, Scale(things[i].costs, n))
       IN  /\ chosen' = Append(chosen, n)
           /\ IF sub > v
              THEN /\ pc' = "panic"
                   /\ v' = v
              ELSE /\ pc' = pc
                   /\ v' = v - sub
    /\ i' = i - 1
    /\ UNCHANGED <<things, costs, err, dp, taked, cur, k, num, passes,
                   solution, call>>

\* lines 183-192: the Solution
Finish ==
    /\ pc = "backtrack"
    /\ i = 0
    /\ solution' = [value |-> dp[end(costs)], chosen |-> collect(things, chosen)]
    /\ pc' = "done"
    /\ UNCHANGED <<things, costs, err, dp, taked, cur, i, k, num, passes, v,
                   chosen, call>>

Next ==
    \/ Check
    \/ MultiPackBegin
    \/ PackLoop
    \/ PackRest
    \/ BacktrackBegin
    \/ BacktrackStep
    \/ Finish

Spec == Init /\ [][Next]_vars

\* ------------------------------------------------------------ other inputs
\* every shape check can meet: no dimension, cost vectors of any length
InitUnchecked ==
    \E B \in UNION {Vectors(n, MaxBoundU) : n \in 0..MaxDimU} :
        \E th \in Lists(Thing(Names, 1, MaxNumU, 0..MaxDimU, MaxCostU), MaxThingsU) :
            Start(th, B)

SpecUnchecked == InitUnchecked /\ [][Next]_vars

\* one dimension, at most one thing, counts large enough for four bundles
InitPack ==
    \E B \in Vectors(1, MaxBoundP) :
        \E th \in Lists(Thing(Names, 1, MaxNumP, {1}, MaxCostP), 1) :
            Start(th, B)

SpecPack == InitPack /\ [][Next]_vars

\* ------------------------------------------------------------ Costs alone
Within(B) == {vec \in Vectors(Len(B), MaxBoundI) : \A d \in 1..Len(B) : vec[d] <= B[d]}

InitIdx ==
    /\ costs \in UNION {Vectors(n, MaxBoundI) : n \in 1..MaxDimI}
    /\ things = <<>>
    /\ pc = "idx"
    /\ err = ""
    /\ dp = <<>>
    /\ taked = <<>>
    /\ cur = <<>>
    /\ i = 1
    /\ k = 0
    /\ num = 0
    /\ passes = <<>>
    /\ v = 0
    /\ chosen = <<>>
    /\ solution = <<>>
    /\ call = [op |-> "none"]

idxRest == <<things, costs, pc, err, dp, taked, cur, i, k, num, passes, v,
             chosen, solution>>

CallToIdx ==
    /\ pc = "idx"
    /\ call.op = "none"
    /\ \E vec \in Within(costs) :
           call' = [op |-> "to_idx", vec |-> vec, ret |-> to_idx(costs, vec)]
    /\ UNCHANGED idxRest

CallToCost ==
    /\ pc = "idx"
    /\ call.op = "none"
    /\ \E c \in iter(costs) :
           call' = [op |-> "to_cost", c |-> c, ret |-> to_cost(costs, c)]
    /\ UNCHANGED idxRest

CallValidateSub ==
    /\ pc = "idx"
    /\ call.op = "none"
    /\ \E bound \in Within(costs), cost \in Vectors(Len(costs), MaxCostI) :
           call' = [op |-> "validate_sub", bound |-> bound, cost |-> cost,
                    ret |-> validate_sub(costs, bound, cost)]
    /\ UNCHANGED idxRest

NextIdx ==
    \/ CallToIdx
    \/ CallToCost
    \/ CallValidateSub

SpecIdx == InitIdx /\ [][NextIdx]_vars

\* ------------------------------------------------------------ claims
\* what the claims are stated in
Quantities == Reverse(chosen)

Valid ==
    /\ Len(costs) > 0
    /\ \A j \in 1..Len(things) : Len(things[j].costs) = Len(costs)

RECURSIVE Dot(_, _, _)
\* sum over the things j..Len(th) of q[j] * f(th[j])
Dot(q, w, j) == IF j > Len(q) THEN 0 ELSE q[j] * w[j] + Dot(q, w, j + 1)

Values(th) == [j \in 1..Len(th) |-> th[j].value]
CostsOf(th, d) == [j \in 1..Len(th) |-> th[j].costs[d]]

Fits(th, B, q) == \A d \in 1..Len(B) : Dot(q, CostsOf(th, d), 1) <= B[d]

MaxOfNums(th) == IF th = <<>> THEN 0
                 ELSE Last({th[j].num : j \in 1..Len(th)})

Allowed(th, B) ==
    {q \in [1..Len(th) -> 0..MaxOfNums(th)] :
        /\ \A j \in 1..Len(th) : q[j] <= th[j].num
        /\ Fits(th, B, q)}

BruteForce(th, B) == Last({Dot(q, Values(th), 1) : q \in Allowed(th, B)})

DistinctNames == \A a, b \in 1..Len(things) :
                    things[a].name = things[b].name => a = b

RECURSIVE SumOver(_, _)
SumOver(s, S) == IF S = {} THEN 0
                 ELSE LET x == CHOOSE y \in S : TRUE
                      IN  s[x] + SumOver(s, S \ {x})

SubsetSums(s) == {SumOver(s, S) : S \in SUBSET (1..Len(s))}

RECURSIVE Pow2(_)
Pow2(n) == IF n = 0 THEN 1 ELSE 2 * Pow2(n - 1)

\* C1: solve returns the maximum total value over all quantity vectors that
\* respect every max count and every dimension's bound (brute force).
C1_Optimal ==
    pc = "done" => solution.value = BruteForce(things, costs)

C1_Witness ==
    /\ pc = "done"
    /\ Len(costs) = 2
    /\ Len(things) = 2
    /\ \A j \in 1..2 : Quantities[j] > 0 /\ Quantities[j] < things[j].num
    /\ solution.value = BruteForce(things, costs)

\* C2: the reconstructed quantities respect every capacity; the backtracking
\* index never underflows, and the state it decodes to is the bound minus what
\* the quantities chosen so far cost, in every dimension.
C2_Capacity ==
    /\ pc # "panic"
    /\ pc \in {"backtrack", "done"} =>
          \A d \in 1..Len(costs) :
              LET spent == SumSeq([m \in 1..Len(chosen) |->
                               chosen[m] * things[Len(things) + 1 - m].costs[d]])
              IN  /\ spent <= costs[d]
                  /\ to_cost(costs, v)[d] = costs[d] - spent

C2_Witness ==
    /\ pc = "done"
    /\ Len(things) = 2
    /\ Len(costs) = 2
    /\ \E d \in 1..2 : Dot(Quantities, CostsOf(things, d), 1) = costs[d]
    /\ \A j \in 1..2 : Quantities[j] > 0

\* C3: every returned quantity lies in [0, max count]; while an item is being
\* packed every entry of its quantity table is a sum of distinct passes' labels,
\* so no bundle is counted twice, and never exceeds the labels applied so far.
C3_Counts ==
    /\ pc = "multi_pack" =>
          \A c \in DOMAIN cur :
              /\ cur[c] \in SubsetSums(passes)
              /\ cur[c] + num <= things[i].num
    /\ \A j \in 1..Len(taked) : \A c \in DOMAIN taked[j] :
          taked[j][c] >= 0 /\ taked[j][c] <= things[j].num
    /\ pc = "done" =>
          \A j \in 1..Len(things) :
              Quantities[j] >= 0 /\ Quantities[j] <= things[j].num

C3_Witness ==
    /\ pc = "done"
    /\ \E j \in 1..Len(things) :
          /\ things[j].num = 3
          /\ Quantities[j] = 3
          /\ \A d \in 1..Len(costs) : things[j].costs[d] = 0

\* C4: with distinct names, the returned value is the sum of quantity * value
\* over the returned mapping.
C4_Accounted ==
    (pc = "done" /\ DistinctNames) =>
        solution.value =
            SumSeq([j \in 1..Len(things) |->
                       solution.chosen[things[j].name] * things[j].value])

C4_Witness ==
    /\ pc = "done"
    /\ DistinctNames
    /\ Len(things) = 2
    /\ \A j \in 1..2 : solution.chosen[things[j].name] > 0
    /\ things[1].value # things[2].value

\* C5: to_idx and to_cost are mutually inverse on the index space, whose size
\* end() + 1 is the product of (bound + 1) over the dimensions.
C5_RoundTrip ==
    pc = "idx" =>
        /\ end(costs) + 1 = ProdSize(costs)
        /\ call.op = "to_cost" =>
              /\ call.ret \in Within(costs)
              /\ to_idx(costs, call.ret) = call.c
        /\ call.op = "to_idx" =>
              /\ call.ret \in 0..(ProdSize(costs) - 1)
              /\ to_cost(costs, call.ret) = call.vec

C5_Witness ==
    /\ pc = "idx"
    /\ Len(costs) = 3
    /\ costs[1] # costs[2] /\ costs[2] # costs[3] /\ costs[3] > 0
    /\ call.op = "to_cost"
    /\ call.c = end(costs) - 1
    /\ \A d \in 1..3 : call.ret[d] > 0

\* C6 as stated: the mapping has as many entries as there are things and each
\* thing's entry holds that thing's own quantity.
C6_OnePerThing ==
    pc = "done" =>
        /\ Cardinality(DOMAIN solution.chosen) = Len(things)
        /\ \A j \in 1..Len(things) :
              solution.chosen[things[j].name] = Quantities[j]

\* C6, amended: the mapping has exactly one entry per distinct name, holding the
\* quantity of the last thing of that name; with distinct names that is one
\* entry per thing, each holding the thing's own quantity.
C6_OnePerName ==
    pc = "done" =>
        /\ DOMAIN solution.chosen = {things[j].name : j \in 1..Len(things)}
        /\ \A j \in 1..Len(things) :
              (\A m \in (j + 1)..Len(things) : things[m].name # things[j].name)
                  => solution.chosen[things[j].name] = Quantities[j]
        /\ DistinctNames => Cardinality(DOMAIN solution.chosen) = Len(things)

C6_Witness ==
    /\ pc = "done"
    /\ Len(things) = 2
    /\ things[1].name = things[2].name
    /\ Quantities[1] # Quantities[2]
    /\ solution.chosen[things[1].name] = Quantities[2]

\* C7 as stated: with the single bound 0 the index space has size 1 and every
\* quantity and the optimal value are 0.
C7_AllZero ==
    (pc = "done" /\ costs = <<0>>) =>
        /\ end(costs) + 1 = 1
        /\ \A j \in 1..Len(things) : Quantities[j] = 0
        /\ solution.value = 0

\* C7, amended: with the single bound 0 the index space has size 1; a thing of
\* positive cost, or of value 0, gets quantity 0, a thing of cost 0 and positive
\* value gets its max count, and the optimal value is the sum of
\* max count * value over the things of cost 0.
C7_ZeroBound ==
    (pc = "done" /\ costs = <<0>>) =>
        /\ end(costs) + 1 = 1
        /\ DOMAIN dp = {0}
        /\ \A j \in 1..Len(things) :
              Quantities[j] = IF things[j].costs[1] = 0 /\ things[j].value > 0
                              THEN things[j].num ELSE 0
        /\ solution.value =
              SumSeq([j \in 1..Len(things) |->
                         IF things[j].costs[1] = 0
                         THEN things[j].num * things[j].value ELSE 0])

C7_Witness ==
    /\ pc = "done"
    /\ costs = <<0>>
    /\ Len(things) = 2
    /\ things[1].costs[1] > 0 /\ things[1].num > 0 /\ things[1].value > 0
    /\ things[2].costs[1] = 0 /\ things[2].num = 3 /\ things[2].value > 0
    /\ Quantities = <<0, 3>>

\* C8: check bails, with no Problem built (no table, no pass), exactly when the
\* bound vector is empty or some thing's cost vector has another length; any
\* other input passes check, never reports an error, and solve can always take
\* its next step until it is done.
C8_Validation ==
    /\ pc = "unchecked" => dp = <<>> /\ err = ""
    /\ (pc # "unchecked" /\ ~Valid) =>
          /\ pc = "error"
          /\ err = IF Len(costs) = 0 THEN "must contain at least one cost"
                   ELSE "costs does not match"
          /\ dp = <<>> /\ taked = <<>> /\ passes = <<>> /\ solution = <<>>
    /\ Valid =>
          /\ pc \notin {"error", "panic"}
          /\ err = ""
          /\ pc # "unchecked" => DOMAIN dp = 0..(ProdSize(costs) - 1)
          /\ pc # "done" => ENABLED Next

C8_Witness ==
    /\ pc = "error"
    /\ err = "costs does not match"
    /\ Len(costs) = 1
    /\ Len(things) = 2
    /\ Len(things[1].costs) = 1
    /\ Len(things[2].costs) = 2

\* C9: validate_sub returns nothing exactly when the cost exceeds the budget in
\* some dimension, and otherwise the index of the componentwise difference,
\* which is never above the budget's own index.
C9_Spend ==
    (pc = "idx" /\ call.op = "validate_sub") =>
        LET n == Len(costs)
            over == \E d \in 1..n : call.cost[d] > call.bound[d]
        IN  /\ call.ret = None <=> over
            /\ ~over =>
                  /\ call.ret = Some(to_idx(costs,
                        [d \in 1..n |-> call.bound[d] - call.cost[d]]))
                  /\ call.ret.val <= to_idx(costs, call.bound)

C9_Witness ==
    /\ pc = "idx"
    /\ call.op = "validate_sub"
    /\ Len(costs) = 3
    /\ \A d \in 1..3 : call.cost[d] > 0 /\ call.cost[d] < call.bound[d]
    /\ call.ret.some
    /\ call.ret.val > 0

\* what C10 says of the passes of the multi_pack that has just returned, for a
\* thing of max count m: the labels are 1, 2, 4, ... and then the remainder,
\* and they sum to m
BundleShape(m) ==
    /\ \A j \in 1..(Len(passes) - 1) : passes[j] = Pow2(j - 1)
    /\ Len(passes) > 0 =>
          /\ passes[Len(passes)] > 0
          /\ passes[Len(passes)] <= Pow2(Len(passes) - 1)
    /\ SumSeq(passes) = m

Ways(q) == {S \in SUBSET (1..Len(passes)) : SumOver(passes, S) = q}

\* C10 as stated: every total in [0, m] is the sum of exactly one subset of the
\* bundles.
C10_ExactlyOnce ==
    (pc = "solve" /\ i > 1) =>
        /\ BundleShape(things[i - 1].num)
        /\ \A q \in 0..things[i - 1].num : Cardinality(Ways(q)) = 1

\* C10, amended: every total in [0, m] is the sum of at least one subset of the
\* bundles, and no subset sums to anything else.
C10_AtLeastOnce ==
    (pc = "solve" /\ i > 1) =>
        /\ BundleShape(things[i - 1].num)
        /\ \A q \in 0..things[i - 1].num : Ways(q) # {}
        /\ SubsetSums(passes) = 0..things[i - 1].num

C10_Witness ==
    /\ pc = "solve"
    /\ i > 1
    /\ things[1].num = 9
    /\ passes = <<1, 2, 4, 2>>
    /\ Cardinality(Ways(2)) = 2

====
